---- MODULE Spec2Model ----
(***************************************************************************)
(* MetGem: the force-directed layout worker (lib/workers/network.py).      *)
(*                                                                         *)
(* NetworkWorker.run decomposes the graph into connected components,       *)
(* lays each one out (fixed positions for 1 and 2 vertices, the           *)
(* ForceAtlas2 kernel otherwise) and shelf-packs the bordered bounding     *)
(* boxes.  The kernel is an external collaborator: its result is one of a  *)
(* family of layouts of the right length, or an exception.                 *)
(* Coordinates are integers here (the program uses float64; every value    *)
(* of the fixed-position paths is an exact integer).                       *)
(***************************************************************************)
EXTENDS Integers, Sequences, FiniteSets, TLC

\* lib/config.py: RADIUS
RADIUS == 30

\* Bounds of the explored instances.
MaxN == 7           \* vertices of the input graph: 0..MaxN
MaxEdges == 2       \* edges of the input graph: 0..MaxEdges
EdgeReach == 1      \* an edge joins vertices at most EdgeReach apart
KernelSpan == 1     \* stretch factors of a kernel layout: 0..KernelSpan
KernelStep == 100   \* unit of the kernel layouts
MaxRuns == 2        \* calls of run() on one worker
MaxWorkers == 3     \* workers the main window creates: 1..MaxWorkers
MaxThreads == 2     \* threads started for one worker
MaxGraphs == 3      \* graphs the main window builds or loads
MaxCalls == 4       \* calls and input events one loading view receives
MaxV == 2           \* vertices of an exported graph: 0..MaxV
MaxE == 1           \* edges of an exported graph: 0..MaxE
MaxNum == 1         \* numeric attribute values: 0..MaxNum
MaxData == 1        \* data elements of one element of a parsed document

VARIABLES
    vcount,         \* self.graph: number of vertices, indices 0..vcount-1
    edges,          \* self.graph: set of edges {u, v}
    max,            \* self.max
    radius,         \* self.radius
    stub,           \* the kernel: any result, or a fixed placement function
    should_stop,    \* BaseWorker's stop flag
    pc,             \* position of run(): "idle", "loop", "body", "done"
    runs,           \* number of run() received started
    prev,           \* with a fixed kernel: what the last completed run returned
    layout,         \* local layout: the (self.max, 2) array
    clusters,       \* local clusters: sorted list of vertex-id lists
    i,              \* loop index of enumerate(clusters), 0-based
    dx, dy,         \* packing cursor
    max_height,     \* tallest bordered box of the current row
    max_width,      \* row width limit
    total_count,    \* vertices laid out so far
    updated,        \* values emitted through self.updated in this run
    canceled,       \* number of self.canceled emissions in this run
    returned,       \* how this run ended: "none", "layout", "False", "raised"
    result,         \* the value run() returned when returned = "layout"
    kernel_calls,   \* the subgraphs handed to the kernel in this run
    writes,         \* the assignments layout[index] = coord of this run
    placed,         \* per processed component, where its box was put
    stop_pos        \* where run() was when stop() was first called

\* the main window (gui.py) and its set of workers
VARIABLES
    workers,            \* the members of MainWindow._workers, a WorkerSet
    progress_visible,   \* widgetProgress.isVisible()
    threads,            \* per worker, the QThreads started for it
    has_scores,         \* hasattr(self.network, 'scores')
    graph_version,      \* how many times createGraph rebuilt self.graph
    wk,                 \* per worker: its kind and state, the graph it was
                        \* given, whether stop() reached it, and for draw:
                        \* the t-SNE drawing that waits for it, the layout
                        \* worker it was started after
    key_error,          \* a remove() raised KeyError
    tsne_pending        \* t-SNE drawings asked of draw and not yet made

\* one loading view (lib/ui/widgets/loading_views.py)
VARIABLES
    _loading,                   \* self._loading
    _scroll_policy,             \* self._scroll_policy
    verticalScrollBarPolicy,    \* the policy of the underlying Qt view
    signalsBlocked,             \* self.signalsBlocked()
    movie,                      \* the loading movie is running
    received                    \* the calls and events received so far, and
                                \* for an event whether the underlying view
                                \* got it

\* GraphML export and import (lib/graphml.py)
VARIABLES
    graph,      \* the graph handed to GraphMLWriter.tostring
    gxl,        \* the document it returns, as the parser will read it
    graph2,     \* what GraphMLParser.fromstring makes of that document
    gml_pc      \* "idle", "graph", "written" or "parsed"

vars == <<graph, gxl, graph2, gml_pc, workers, progress_visible, threads, has_scores, graph_version,
         wk, key_error, tsne_pending, _loading, _scroll_policy, verticalScrollBarPolicy,
         signalsBlocked, movie, received, vcount, edges, max, radius, stub, should_stop, pc, runs, prev, layout, clusters,
          i, dx, dy, max_height, max_width, total_count, updated, canceled,
          returned, result, kernel_calls, writes, placed, stop_pos>>

viewVars == <<_loading, _scroll_policy, verticalScrollBarPolicy, signalsBlocked,
             movie, received>>

guiVars == <<workers, progress_visible, threads, has_scores, graph_version, wk,
            key_error, tsne_pending, viewVars>>

gmlVars == <<graph, gxl, graph2, gml_pc>>

graphVars == <<vcount, edges, max, radius, stub>>
localVars == <<layout, clusters, i, dx, dy, max_height, max_width, total_count>>
obsVars == <<updated, canceled, returned, result, kernel_calls, writes, placed>>

-----------------------------------------------------------------------------
(* Helpers *)

Max2(a, b) == IF a >= b THEN a ELSE b

SetMin(S) == CHOOSE x \in S : \A y \in S : x <= y
SetMax(S) == CHOOSE x \in S : \A y \in S : x >= y

RECURSIVE SortedSeq(_)
\* the elements of a set of integers in ascending order
SortedSeq(S) ==
    IF S = {} THEN <<>>
    ELSE LET m == SetMin(S) IN <<m>> \o SortedSeq(S \ {m})

RECURSIVE SumSeq(_)
SumSeq(s) == IF s = <<>> THEN 0 ELSE Head(s) + SumSeq(Tail(s))

Range(s) == {s[k] : k \in DOMAIN s}

-----------------------------------------------------------------------------
(* igraph: Graph.clusters() and Graph.subgraph() *)

Vertices(n) == 0..(n - 1)

\* the graphs explored: n vertices and at most MaxEdges edges, each between
\* two vertices at most EdgeReach apart (no self loops, which never change a
\* connected component)
AllEdges(n) ==
    {e \in SUBSET Vertices(n) :
        /\ Cardinality(e) = 2
        /\ SetMax(e) - SetMin(e) <= EdgeReach}
EdgeSets(n) == {E \in SUBSET AllEdges(n) : Cardinality(E) <= MaxEdges}

Neighbours(E, S) == S \cup {v \in UNION E : \E e \in E : v \in e /\ e \cap S # {}}

RECURSIVE Reach(_, _)
\* the vertices reachable from the set S
Reach(E, S) ==
    LET T == Neighbours(E, S) IN IF T = S THEN S ELSE Reach(E, T)

RECURSIVE ClustersFrom(_, _)
\* Graph.clusters(): the components in order of their smallest vertex,
\* each one the ascending list of its vertex ids
ClustersFrom(E, rest) ==
    IF rest = {} THEN <<>>
    ELSE LET c == Reach(E, {SetMin(rest)})
         IN <<SortedSeq(c)>> \o ClustersFrom(E, rest \ c)

Clusters(n, E) == ClustersFrom(E, Vertices(n))

OfLen(cs, k) == SelectSeq(cs, LAMBDA c : Len(c) = k)

RECURSIVE SortByLenFrom(_, _)
SortByLenFrom(cs, k) ==
    IF k = 0 THEN <<>> ELSE OfLen(cs, k) \o SortByLenFrom(cs, k - 1)

\* the clusters left in the order of Graph.clusters()
SortByLenNone(cs) == cs

\* sorted(cs, key=len, reverse=True): stable, so equal sizes keep their order
SortByLenDesc(cs) == SortByLenFrom(cs, SumSeq([k \in DOMAIN cs |-> Len(cs[k])]))

\* edges of the induced subgraph self.graph.subgraph(ids)
SubgraphEdges(E, ids) == {e \in E : e \subseteq Range(ids)}

\* line 36: self.graph.subgraph(ids), its vertices named by their ids
subgraph(E, ids) == [ids |-> ids, edges |-> SubgraphEdges(E, ids)]

-----------------------------------------------------------------------------
(* igraph: Layout.bounding_box(border) and Layout.translate *)

Xs(l) == {l[k][1] : k \in DOMAIN l}
Ys(l) == {l[k][2] : k \in DOMAIN l}

\* the bounding box without its border
bounding_box_tight(l, border) ==
    [left   |-> SetMin(Xs(l)),
     top    |-> SetMin(Ys(l)),
     right  |-> SetMax(Xs(l)),
     bottom |-> SetMax(Ys(l))]

bounding_box(l, border) ==
    [left   |-> SetMin(Xs(l)) - border,
     top    |-> SetMin(Ys(l)) - border,
     right  |-> SetMax(Xs(l)) + border,
     bottom |-> SetMax(Ys(l)) + border]

Width(bb) == bb.right - bb.left
Height(bb) == bb.bottom - bb.top

\* a translation along x only
translateX(l, tx, ty) == [k \in DOMAIN l |-> <<l[k][1] + tx, l[k][2]>>]

translate(l, tx, ty) == [k \in DOMAIN l |-> <<l[k][1] + tx, l[k][2] + ty>>]

-----------------------------------------------------------------------------
(* The kernel: forceatlas2_igraph_layout on a subgraph of n >= 3 vertices *)

\* one possible result: the vertices spread to the right by a per vertex,
\* every second one raised by b
KernelLayout(n, a, b) ==
    [k \in 1..n |-> <<KernelStep * a * (k - 1),
                      0 - KernelStep * b * ((k - 1) % 2)>>]

\* the results explored for a subgraph of n vertices
KernelLayouts(n) == {KernelLayout(n, a, b) : a \in 0..KernelSpan, b \in 0..KernelSpan}

\* the kernel as it is: each call may return any layout or raise
AnyKernel == [det |-> FALSE, a |-> 0, b |-> 0, raises |-> FALSE]

\* the kernel replaced by a fixed placement function, or by one that raises
FixedKernels ==
    [det : {TRUE}, a : 0..KernelSpan, b : 0..KernelSpan, raises : {FALSE}]
        \cup {[det |-> TRUE, a |-> 0, b |-> 0, raises |-> TRUE]}

\* what a call of the kernel k on n vertices may return
KernelReturns(k, n) ==
    IF k.det
    THEN IF k.raises THEN {} ELSE {KernelLayout(n, k.a, k.b)}
    ELSE KernelLayouts(n)

\* whether a call of the kernel k may raise
KernelMayRaise(k) == ~k.det \/ k.raises

-----------------------------------------------------------------------------
(* NetworkWorker.run *)

\* the same border for every size
BorderUniform(vc, r) == 2 * r

\* lines 39-47: the border of a component of vc vertices
Border(vc, r) == IF vc = 1 \/ vc = 2 THEN 2 * r ELSE 5 * r

\* the two vertices side by side instead of stacked
FixedLayoutSideBySide(vc, r) ==
    IF vc = 1 THEN << <<0, 0>> >>
    ELSE << <<0 - 2 * r, 0>>, <<2 * r, 0>> >>

\* lines 39-44: the layouts that need no kernel
FixedLayout(vc, r) ==
    IF vc = 1 THEN << <<0, 0>> >>
    ELSE << <<0, 0 - 2 * r>>, <<0, 2 * r>> >>

\* the index within the subgraph instead of the original vertex index
TargetLocal(ids, k) == k - 1

\* lines 52-53: the row of the array that receives the k-th coordinate
Target(ids, k) == ids[k]

\* lines 52-53: for coord, index in zip(l, ids): layout[index] = coord
\* (a later pair of the zip overwrites an earlier one on the same row)
WriteBack(lay, l, ids) ==
    LET pairs == DOMAIN ids \cap DOMAIN l
        hits(v) == {k \in pairs : Target(ids, k) = v}
    IN [v \in DOMAIN lay |->
           IF hits(v) # {} THEN l[SetMax(hits(v))] ELSE lay[v]]

\* lines 52-53: the rows assigned, in order, by component number c
Written(l, ids, c) ==
    [k \in 1..Cardinality(DOMAIN ids \cap DOMAIN l) |->
        [index |-> Target(ids, k), by |-> c]]

\* the limit taken from every component, not only the first
NewMaxWidthEach(mw, bb) == Width(bb) * 2

\* rows three first boxes wide
NewMaxWidthTriple(mw, bb) == IF mw = 0 THEN Width(bb) * 3 ELSE mw

\* lines 55-56
NewMaxWidth(mw, bb) == IF mw = 0 THEN Width(bb) * 2 ELSE mw

\* a wrap only when the limit is exceeded, not when it is reached
AdvanceStrict(cx, cy, mh, mw, bb) ==
    LET ndx == cx + Width(bb)
        nmh == Max2(mh, Height(bb))
    IN IF ndx > mw
       THEN [dx |-> 0, dy |-> cy + nmh, max_height |-> 0]
       ELSE [dx |-> ndx, dy |-> cy, max_height |-> nmh]

\* a wrap that advances by the last box's height, not the row's tallest
AdvanceLastHeight(cx, cy, mh, mw, bb) ==
    LET ndx == cx + Width(bb)
        nmh == Max2(mh, Height(bb))
    IN IF ndx >= mw
       THEN [dx |-> 0, dy |-> cy + Height(bb), max_height |-> 0]
       ELSE [dx |-> ndx, dy |-> cy, max_height |-> nmh]

\* a wrap that leaves the row's tracker as it was
AdvanceKeepTracker(cx, cy, mh, mw, bb) ==
    LET ndx == cx + Width(bb)
        nmh == Max2(mh, Height(bb))
    IN IF ndx >= mw
       THEN [dx |-> 0, dy |-> cy + nmh, max_height |-> nmh]
       ELSE [dx |-> ndx, dy |-> cy, max_height |-> nmh]

\* one row without end
AdvanceNoWrap(cx, cy, mh, mw, bb) ==
    [dx |-> cx + Width(bb), dy |-> cy, max_height |-> Max2(mh, Height(bb))]

\* lines 58-63: the cursor after a component of box bb
Advance(cx, cy, mh, mw, bb) ==
    LET ndx == cx + Width(bb)
        nmh == Max2(mh, Height(bb))
    IN IF ndx >= mw
       THEN [dx |-> 0, dy |-> cy + nmh, max_height |-> 0]
       ELSE [dx |-> ndx, dy |-> cy, max_height |-> nmh]

\* the counter assigned instead of accumulated
NewTotalAssigned(tc, vc) == vc

\* line 65
NewTotal(tc, vc) == tc + vc

\* gui.py 99, 102, 135: the window after construction, no worker created
Workers == 1..MaxWorkers

NoWorker ==
    [kind |-> "none", state |-> "none", graph |-> 0, stop |-> FALSE,
     tsne |-> "no", after |-> 0]

\* loading_views.py 12-22: a view after construction; a Qt view shows its
\* vertical scroll bar as needed
ViewIdle ==
    /\ _loading = FALSE
    /\ _scroll_policy = "ScrollBarAsNeeded"
    /\ verticalScrollBarPolicy = "ScrollBarAsNeeded"
    /\ signalsBlocked = FALSE
    /\ movie = FALSE
    /\ received = <<>>

GuiIdle ==
    /\ ViewIdle
    /\ workers = {}
    /\ progress_visible = FALSE
    /\ threads = [w \in Workers |-> 0]
    /\ has_scores = FALSE
    /\ graph_version = 0
    /\ wk = [w \in Workers |-> NoWorker]
    /\ key_error = FALSE
    /\ tsne_pending = 0

\* no graph exported or imported
NoText == [none |-> TRUE, s |-> ""]

NoGraph ==
    [raised |-> FALSE, nv |-> 0, es |-> <<>>, gattrs |-> <<>>, vattrs |-> <<>>,
     eattrs |-> <<>>]

NoDoc == [raised |-> FALSE, keys |-> {}, gdata |-> <<>>, nodes |-> <<>>, edges |-> <<>>]

GmlIdle ==
    /\ graph = NoGraph
    /\ gxl = NoDoc
    /\ graph2 = NoGraph
    /\ gml_pc = "idle"

Init ==
    /\ GmlIdle
    /\ GuiIdle
    /\ vcount \in 0..MaxN
    /\ edges \in EdgeSets(vcount)
    /\ max = vcount
    /\ radius = RADIUS
    /\ stub = AnyKernel
    /\ should_stop = FALSE
    /\ pc = "idle"
    /\ runs = 0
    /\ prev = <<>>
    /\ layout = <<>>
    /\ clusters = <<>>
    /\ i = 0
    /\ dx = 0
    /\ dy = 0
    /\ max_height = 0
    /\ max_width = 0
    /\ total_count = 0
    /\ updated = <<>>
    /\ canceled = 0
    /\ returned = "none"
    /\ result = <<>>
    /\ kernel_calls = <<>>
    /\ writes = <<>>
    /\ placed = <<>>
    /\ stop_pos = <<>>

\* BaseWorker.stop(): request a cooperative stop, from any thread
Stop ==
    /\ should_stop' = TRUE
    /\ stop_pos' = IF should_stop THEN stop_pos
                   ELSE <<[run |-> runs, pc |-> pc, i |-> i]>>
    /\ UNCHANGED <<gmlVars, guiVars, graphVars, pc, runs, prev, localVars, obsVars>>

\* BaseWorker.isStopped()
isStopped == should_stop

\* what the run before this one returned, kept for comparison
Outcome ==
    IF stub.det /\ returned = "layout"
    THEN <<[result |-> result, updated |-> updated]>>
    ELSE prev

\* the packing cursor left where the run before ended
RunKeepCursor ==
    /\ pc \in {"idle", "done"}
    /\ runs < MaxRuns
    /\ runs' = runs + 1
    /\ prev' = Outcome
    /\ layout' = [v \in Vertices(max) |-> <<0, 0>>]
    /\ clusters' = SortByLenDesc(Clusters(vcount, edges))
    /\ i' = 0
    /\ dx' = dx
    /\ dy' = dy
    /\ max_height' = 0
    /\ max_width' = 0
    /\ total_count' = 0
    /\ updated' = <<>>
    /\ canceled' = 0
    /\ returned' = "none"
    /\ result' = <<>>
    /\ kernel_calls' = <<>>
    /\ writes' = <<>>
    /\ placed' = <<>>
    /\ pc' = "loop"
    /\ UNCHANGED <<gmlVars, guiVars, graphVars, should_stop, stop_pos>>

\* lines 19-30: entry of run() up to the loop
Run ==
    /\ pc \in {"idle", "done"}
    /\ runs < MaxRuns
    /\ runs' = runs + 1
    /\ prev' = Outcome
    /\ layout' = [v \in Vertices(max) |-> <<0, 0>>]
    /\ clusters' = SortByLenDesc(Clusters(vcount, edges))
    /\ i' = 0
    /\ dx' = 0
    /\ dy' = 0
    /\ max_height' = 0
    /\ max_width' = 0
    /\ total_count' = 0
    /\ updated' = <<>>
    /\ canceled' = 0
    /\ returned' = "none"
    /\ result' = <<>>
    /\ kernel_calls' = <<>>
    /\ writes' = <<>>
    /\ placed' = <<>>
    /\ pc' = "loop"
    /\ UNCHANGED <<gmlVars, guiVars, graphVars, should_stop, stop_pos>>

\* canceled emitted, but the partial layout returned
CancelPartial ==
    /\ pc = "loop"
    /\ i < Len(clusters)
    /\ isStopped
    /\ canceled' = canceled + 1
    /\ returned' = "layout"
    /\ result' = layout
    /\ pc' = "done"
    /\ UNCHANGED <<gmlVars, guiVars, graphVars, should_stop, stop_pos, runs, prev, localVars,
                   updated, kernel_calls, writes, placed>>

\* canceled emitted, but the return statement missing
CancelNoReturn ==
    /\ pc = "loop"
    /\ i < Len(clusters)
    /\ isStopped
    /\ canceled' = canceled + 1
    /\ pc' = "body"
    /\ UNCHANGED <<gmlVars, guiVars, graphVars, should_stop, stop_pos, runs, prev, localVars,
                   updated, returned, result, kernel_calls, writes, placed>>

\* the stop flag tested before the loop instead of inside it
CancelBeforeLoop ==
    /\ pc = "loop"
    /\ isStopped
    /\ canceled' = canceled + 1
    /\ returned' = "False"
    /\ result' = <<>>
    /\ pc' = "done"
    /\ UNCHANGED <<gmlVars, guiVars, graphVars, should_stop, stop_pos, runs, prev, localVars,
                   updated, kernel_calls, writes, placed>>

\* lines 31-34: the next component exists and a stop was requested
Cancel ==
    /\ pc = "loop"
    /\ i < Len(clusters)
    /\ isStopped
    /\ canceled' = canceled + 1
    /\ returned' = "False"
    /\ result' = <<>>
    /\ pc' = "done"
    /\ UNCHANGED <<gmlVars, guiVars, graphVars, should_stop, stop_pos, runs, prev, localVars,
                   updated, kernel_calls, writes, placed>>

\* the loop body entered without testing the stop flag
EnterUnchecked ==
    /\ pc = "loop"
    /\ i < Len(clusters)
    /\ pc' = "body"
    /\ UNCHANGED <<gmlVars, guiVars, graphVars, should_stop, stop_pos, runs, prev, localVars, obsVars>>

\* lines 31-32: the next component exists and no stop was requested
Enter ==
    /\ pc = "loop"
    /\ i < Len(clusters)
    /\ ~isStopped
    /\ pc' = "body"
    /\ UNCHANGED <<gmlVars, guiVars, graphVars, should_stop, stop_pos, runs, prev, localVars, obsVars>>

\* progress emitted for every vertex written
PlaceEmitPerVertex(l, ids) ==
    LET border == Border(Len(ids), radius)
        bb == bounding_box(l, border)
        tl == translate(l, dx - bb.left, dy - bb.top)
        mw == NewMaxWidth(max_width, bb)
        cur == Advance(dx, dy, max_height, mw, bb)
    IN /\ layout' = WriteBack(layout, tl, ids)
       /\ writes' = writes \o Written(tl, ids, i + 1)
       /\ placed' = Append(placed, [ids |-> ids, left |-> dx, top |-> dy,
                                    width |-> Width(bb), height |-> Height(bb),
                                    border |-> border, local |-> l])
       /\ max_width' = mw
       /\ dx' = cur.dx
       /\ dy' = cur.dy
       /\ max_height' = cur.max_height
       /\ total_count' = NewTotal(total_count, Len(ids))
       /\ updated' = updated \o [k \in 1..Len(ids) |-> NewTotal(total_count, k)]
       /\ i' = i + 1
       /\ pc' = "loop"

\* lines 49-66: pack the local layout l of the current component
Place(l, ids) ==
    LET border == Border(Len(ids), radius)
        bb == bounding_box(l, border)
        tl == translate(l, dx - bb.left, dy - bb.top)
        mw == NewMaxWidth(max_width, bb)
        cur == Advance(dx, dy, max_height, mw, bb)
    IN /\ layout' = WriteBack(layout, tl, ids)
       /\ writes' = writes \o Written(tl, ids, i + 1)
       /\ placed' = Append(placed, [ids |-> ids, left |-> dx, top |-> dy,
                                    width |-> Width(bb), height |-> Height(bb),
                                    border |-> border, local |-> l])
       /\ max_width' = mw
       /\ dx' = cur.dx
       /\ dy' = cur.dy
       /\ max_height' = cur.max_height
       /\ total_count' = NewTotal(total_count, Len(ids))
       /\ updated' = Append(updated, NewTotal(total_count, Len(ids)))
       /\ i' = i + 1
       /\ pc' = "loop"

\* lines 36-44, 49-66: a component of one or two vertices
PlaceFixed ==
    /\ pc = "body"
    /\ LET ids == clusters[i + 1]
       IN /\ Len(ids) \in {1, 2}
          /\ Place(FixedLayout(Len(ids), radius), ids)
    /\ UNCHANGED <<gmlVars, guiVars, graphVars, should_stop, stop_pos, runs, prev, clusters,
                   canceled, returned, result, kernel_calls>>

\* lines 36-38, 45-66: a larger component, the kernel returns a layout
PlaceKernel ==
    /\ pc = "body"
    /\ LET ids == clusters[i + 1]
       IN /\ Len(ids) >= 3
          /\ kernel_calls' = Append(kernel_calls, subgraph(edges, ids))
          /\ \E l \in KernelReturns(stub, Len(ids)) : Place(l, ids)
    /\ UNCHANGED <<gmlVars, guiVars, graphVars, should_stop, stop_pos, runs, prev, clusters,
                   canceled, returned, result>>

\* the kernel's exception swallowed and the component skipped
KernelRaiseSkipped ==
    /\ pc = "body"
    /\ Len(clusters[i + 1]) >= 3
    /\ KernelMayRaise(stub)
    /\ kernel_calls' = Append(kernel_calls, subgraph(edges, clusters[i + 1]))
    /\ i' = i + 1
    /\ pc' = "loop"
    /\ UNCHANGED <<gmlVars, guiVars, graphVars, should_stop, stop_pos, runs, prev, layout, clusters,
                   dx, dy, max_height, max_width, total_count,
                   updated, canceled, returned, result, writes, placed>>

\* line 46: the kernel raises, the exception leaves run()
KernelRaise ==
    /\ pc = "body"
    /\ Len(clusters[i + 1]) >= 3
    /\ KernelMayRaise(stub)
    /\ kernel_calls' = Append(kernel_calls, subgraph(edges, clusters[i + 1]))
    /\ returned' = "raised"
    /\ result' = <<>>
    /\ pc' = "done"
    /\ UNCHANGED <<gmlVars, guiVars, graphVars, should_stop, stop_pos, runs, prev, localVars,
                   updated, canceled, writes, placed>>

\* the stop flag tested once more after the loop
ReturnChecked ==
    /\ pc = "loop"
    /\ i >= Len(clusters)
    /\ returned' = IF isStopped THEN "False" ELSE "layout"
    /\ result' = IF isStopped THEN <<>> ELSE layout
    /\ canceled' = IF isStopped THEN canceled + 1 ELSE canceled
    /\ pc' = "done"
    /\ UNCHANGED <<gmlVars, guiVars, graphVars, should_stop, stop_pos, runs, prev, localVars,
                   updated, kernel_calls, writes, placed>>

\* line 68: the loop is exhausted
Return ==
    /\ pc = "loop"
    /\ i >= Len(clusters)
    /\ returned' = "layout"
    /\ result' = layout
    /\ pc' = "done"
    /\ UNCHANGED <<gmlVars, guiVars, graphVars, should_stop, stop_pos, runs, prev, localVars,
                   updated, canceled, kernel_calls, writes, placed>>

Next ==
    \/ Stop
    \/ Run
    \/ Cancel
    \/ Enter
    \/ PlaceFixed
    \/ PlaceKernel
    \/ KernelRaise
    \/ Return

Spec == Init /\ [][Next]_vars

\* the same worker with the kernel replaced by a fixed placement function
InitFixedKernel ==
    /\ GmlIdle
    /\ GuiIdle
    /\ vcount \in 0..MaxN
    /\ edges \in EdgeSets(vcount)
    /\ max = vcount
    /\ radius = RADIUS
    /\ stub \in FixedKernels
    /\ should_stop = FALSE
    /\ pc = "idle"
    /\ runs = 0
    /\ prev = <<>>
    /\ layout = <<>>
    /\ clusters = <<>>
    /\ i = 0
    /\ dx = 0
    /\ dy = 0
    /\ max_height = 0
    /\ max_width = 0
    /\ total_count = 0
    /\ updated = <<>>
    /\ canceled = 0
    /\ returned = "none"
    /\ result = <<>>
    /\ kernel_calls = <<>>
    /\ writes = <<>>
    /\ placed = <<>>
    /\ stop_pos = <<>>

SpecFixedKernel == InitFixedKernel /\ [][Next]_vars

\* the run-time steps of run(); stop() belongs to another thread
RunStep == Cancel \/ Enter \/ PlaceFixed \/ PlaceKernel \/ KernelRaise \/ Return

-----------------------------------------------------------------------------
(* Properties *)

Last(s) == s[Len(s)]

\* stop() was called before the current run() was entered
StoppedBeforeRun == stop_pos # <<>> /\ stop_pos[1].run < runs

\* stop() was first called at position p of the current run, component k
StoppedAt(p, k) ==
    /\ stop_pos # <<>>
    /\ stop_pos[1].run = runs
    /\ stop_pos[1].pc = p
    /\ stop_pos[1].i = k

\* the number of assignments to row v in this run
WriteCount(v) == Cardinality({k \in DOMAIN writes : writes[k].index = v})

\* C1: a run that returns a layout returns one coordinate per vertex, indexed
\* by the original vertex index: every row 0..N-1 was assigned exactly once,
\* by the component that contains it, and no other row was assigned.
C1_OneCoordinatePerVertex ==
    returned = "layout" =>
        /\ DOMAIN result = Vertices(vcount)
        /\ \A v \in Vertices(vcount) : WriteCount(v) = 1
        /\ \A k \in DOMAIN writes :
              /\ writes[k].index \in Vertices(vcount)
              /\ writes[k].index \in Range(clusters[writes[k].by])
        /\ \A c \in DOMAIN placed : \A k \in DOMAIN placed[c].ids :
              result[placed[c].ids[k]] =
                  <<placed[c].local[k][1] + placed[c].left + placed[c].border
                        - SetMin(Xs(placed[c].local)),
                    placed[c].local[k][2] + placed[c].top + placed[c].border
                        - SetMin(Ys(placed[c].local))>>

C1_Witness ==
    /\ returned = "layout"
    /\ vcount = 4
    /\ Len(clusters) = 2
    /\ kernel_calls # <<>>
    /\ result[3][1] > result[0][1]

\* the bordered box of the c-th placed component
BoxLeft(c) == placed[c].left
BoxRight(c) == placed[c].left + placed[c].width
BoxTop(c) == placed[c].top
BoxBottom(c) == placed[c].top + placed[c].height

BoxesDisjoint(a, b) ==
    \/ BoxRight(a) <= BoxLeft(b)
    \/ BoxRight(b) <= BoxLeft(a)
    \/ BoxBottom(a) <= BoxTop(b)
    \/ BoxBottom(b) <= BoxTop(a)

InsideBox(pt, c) ==
    /\ BoxLeft(c) < pt[1]
    /\ pt[1] < BoxRight(c)
    /\ BoxTop(c) < pt[2]
    /\ pt[2] < BoxBottom(c)

\* C2: in a completed run the bordered boxes of two distinct components have
\* disjoint interiors, and no vertex of one lies inside the box of another,
\* whatever local layouts the kernel returned.
C2_BoxesDoNotOverlap ==
    returned = "layout" =>
        \A a, b \in DOMAIN placed :
            a # b =>
                /\ BoxesDisjoint(a, b)
                /\ \A k \in DOMAIN placed[a].ids :
                      ~InsideBox(result[placed[a].ids[k]], b)

C2_Witness ==
    /\ returned = "layout"
    /\ kernel_calls # <<>>
    /\ \E a, b \in DOMAIN placed :
          /\ BoxTop(a) = 0
          /\ BoxTop(b) > 0
          /\ placed[b].height < placed[a].height
    /\ \E a, b \in DOMAIN placed : a # b /\ BoxTop(a) = BoxTop(b)

\* C3: a stop observed at a component boundary aborts the run: canceled is
\* emitted once, run returns False with no coordinates (also not those of
\* components already placed), and no progress event follows.
C3_CancelAborts ==
    /\ [][(pc = "loop" /\ i < Len(clusters) /\ should_stop) =>
            /\ pc' = "done"
            /\ returned' = "False"
            /\ canceled' = 1
            /\ result' = <<>>
            /\ updated' = updated]_vars
    /\ [][(returned = "False" /\ runs' = runs) =>
            /\ returned' = "False"
            /\ canceled' = 1
            /\ result' = <<>>
            /\ updated' = updated]_vars
    /\ [](returned = "False" => canceled = 1 /\ result = <<>> /\ pc = "done")

C3_Witness ==
    /\ returned = "False"
    /\ canceled = 1
    /\ Len(placed) >= 1
    /\ result = <<>>

\* C4: within a run the progress values never decrease and never exceed the
\* vertex count, the counter starts from zero in every run, and a run that
\* completes ends with the vertex count as its last value.
C4_ProgressMonotone ==
    /\ \A k \in DOMAIN updated : updated[k] <= vcount
    /\ \A k \in DOMAIN updated : k > 1 => updated[k - 1] <= updated[k]
    /\ (updated # <<>> => Last(updated) = total_count)
    /\ (updated = <<>> /\ pc # "idle" => total_count = 0)
    /\ (pc = "loop" /\ i = 0 => updated = <<>> /\ total_count = 0)
    /\ (returned = "layout" =>
           /\ total_count = vcount
           /\ (vcount > 0 => updated # <<>> /\ Last(updated) = vcount))

C4_Witness ==
    /\ runs = 2
    /\ returned = "layout"
    /\ Len(updated) >= 3
    /\ updated[1] < updated[2]

\* C5 as claimed: a stop requested before run() starts cancels the run for
\* every input graph.
C5_StopBeforeRunAnyGraph ==
    (StoppedBeforeRun /\ pc = "done") =>
        /\ returned = "False"
        /\ canceled = 1
        /\ updated = <<>>
        /\ result = <<>>

\* C5: for a graph with at least one vertex, a stop requested before run()
\* starts ends the run with canceled emitted and False returned, no progress
\* event and no coordinate.
C5_StopBeforeRun ==
    (StoppedBeforeRun /\ vcount > 0) =>
        /\ updated = <<>>
        /\ writes = <<>>
        /\ kernel_calls = <<>>
        /\ pc \in {"loop", "done"}
        /\ (pc = "done" =>
               /\ returned = "False"
               /\ canceled = 1
               /\ result = <<>>)

C5_Witness ==
    /\ stop_pos # <<>>
    /\ stop_pos[1].run = 0
    /\ runs = 1
    /\ vcount >= 3
    /\ returned = "False"

\* a progress measure of run(): it is bounded below by 0
Remaining ==
    IF pc = "done" THEN 0
    ELSE 2 * (Len(clusters) - i) + (IF pc = "loop" THEN 2 ELSE 1)

\* C6: run() takes at most one loop iteration per component and, if each
\* kernel call returns or raises, terminates in exactly one of three
\* outcomes (the full layout, False after canceled, or the kernel's
\* exception); nothing is emitted after the outcome.  Termination: while
\* run() is under way one of its steps is enabled, and every step lowers
\* the measure Remaining, which is bounded below.
C6_OneTerminalOutcome ==
    /\ [](pc \in {"loop", "body"} =>
            /\ returned = "none"
            /\ i <= Len(clusters)
            /\ Len(placed) = i)
    /\ [](pc = "done" =>
            /\ returned \in {"layout", "False", "raised"}
            /\ (returned = "layout" =>
                   /\ canceled = 0
                   /\ DOMAIN result = Vertices(vcount)
                   /\ Len(placed) = Len(clusters))
            /\ (returned = "False" => canceled = 1 /\ result = <<>>)
            /\ (returned = "raised" => canceled = 0 /\ result = <<>>))
    /\ [][(pc \in {"loop", "body"} /\ pc' # pc) => Remaining' < Remaining]_vars
    /\ [][(pc = "done" /\ runs' = runs) =>
            /\ pc' = "done"
            /\ returned' = returned
            /\ updated' = updated
            /\ canceled' = canceled
            /\ result' = result]_vars
    /\ [](pc \in {"loop", "body"} => ENABLED RunStep)

C6_Witness ==
    /\ pc = "done"
    /\ returned = "raised"
    /\ placed = <<>>
    /\ Len(clusters) = 2

\* C7 stop flag read only at a component boundary: a stop that arrives
\* while component k (not the last) is laid out lets it finish and report,
\* then the run is cancelled before component k+1; a stop that arrives after
\* the last boundary check changes nothing and the full layout is returned.
C7_StopOnlyAtBoundary ==
    /\ \A k \in 0..(Len(clusters) - 1) :
          (StoppedAt("body", k) /\ pc = "done") =>
              \/ returned = "raised" /\ Len(placed) = k
              \/ /\ k + 1 < Len(clusters)
                 /\ returned = "False"
                 /\ Len(placed) = k + 1
                 /\ Len(updated) = k + 1
              \/ /\ k + 1 = Len(clusters)
                 /\ returned = "layout"
                 /\ DOMAIN result = Vertices(vcount)
                 /\ Len(updated) = Len(clusters)
    /\ (StoppedAt("loop", Len(clusters)) /\ pc = "done") =>
          /\ returned = "layout"
          /\ DOMAIN result = Vertices(vcount)

C7_Witness ==
    /\ StoppedAt("body", 0)
    /\ Len(clusters) = 2
    /\ returned = "False"
    /\ Len(updated) = 1
    /\ kernel_calls # <<>>

\* C8: for a graph without vertices run() returns the empty layout at once:
\* no loop iteration, no progress event, no kernel call, no canceled.
C8_EmptyGraph ==
    (vcount = 0 /\ runs > 0) =>
        /\ clusters = <<>>
        /\ pc \in {"loop", "done"}
        /\ updated = <<>>
        /\ kernel_calls = <<>>
        /\ canceled = 0
        /\ (pc = "done" => returned = "layout" /\ result = <<>>)

C8_Witness ==
    /\ vcount = 0
    /\ pc = "done"
    /\ returned = "layout"
    /\ should_stop

\* C9 as claimed: a graph of one isolated vertex gets the coordinate (0, 0).
C9_SingleVertexAtOrigin ==
    (vcount = 1 /\ returned = "layout") => result[0] = <<0, 0>>

\* C9: a graph of one isolated vertex gets the coordinate (2r, 2r): the
\* local origin moved so that the top-left corner of the box with its border
\* of 2r lies on the cursor (0, 0).
C9_SingleVertexAtBorder ==
    (vcount = 1 /\ returned = "layout") =>
        /\ placed[1].local = << <<0, 0>> >>
        /\ placed[1].left = 0
        /\ placed[1].top = 0
        /\ placed[1].border = 2 * radius
        /\ result[0] = <<2 * radius, 2 * radius>>

C9_Witness ==
    /\ vcount = 1
    /\ returned = "layout"
    /\ result = (0 :> <<2 * RADIUS, 2 * RADIUS>>)

\* C10: a component of two vertices is placed without the kernel at the
\* local offsets (0, -2r) and (0, 2r), lower index first; wherever it is
\* packed both vertices share their x and their y differ by exactly 4r.
C10_TwoVertexComponent ==
    \A c \in DOMAIN placed :
        Len(placed[c].ids) = 2 =>
            LET a == placed[c].ids[1]
                b == placed[c].ids[2]
            IN /\ a < b
               /\ placed[c].local = << <<0, 0 - 2 * radius>>, <<0, 2 * radius>> >>
               /\ \A k \in DOMAIN kernel_calls : kernel_calls[k].ids # placed[c].ids
               /\ layout[a][1] = layout[b][1]
               /\ layout[b][2] - layout[a][2] = 4 * radius
               /\ (returned = "layout" =>
                      /\ result[a][1] = result[b][1]
                      /\ result[b][2] - result[a][2] = 4 * radius)

C10_Witness ==
    /\ returned = "layout"
    /\ Len(placed) = 2
    /\ Len(placed[2].ids) = 2
    /\ placed[2].left > 0

\* C11: components are packed left to right in processing order: the cursor
\* moves right by the bordered width of the component just placed and wraps
\* to x = 0 of a new row exactly when it reaches or exceeds twice the
\* bordered width of the first component; otherwise the next component
\* stands immediately to the right at the same y.
C11_ShelfPacking ==
    /\ \A c \in DOMAIN placed :
          LET ndx == placed[c].left + placed[c].width
              wrap == ndx >= 2 * placed[1].width
              nx == IF c < Len(placed) THEN placed[c + 1].left ELSE dx
              ny == IF c < Len(placed) THEN placed[c + 1].top ELSE dy
          IN /\ (wrap => nx = 0 /\ ny > placed[c].top)
             /\ (~wrap => nx = ndx /\ ny = placed[c].top)
    /\ (placed # <<>> => placed[1].left = 0 /\ placed[1].top = 0)

C11_Witness ==
    /\ Len(placed) >= 4
    /\ kernel_calls # <<>>
    /\ placed[2].left = placed[1].width
    /\ placed[2].top = 0
    /\ \E c \in DOMAIN placed : placed[c].left = 0 /\ placed[c].top > 0

\* C12: with the same graph, the same radius and a fixed placement function
\* as kernel, a run that returns a layout returns the layout, and has
\* emitted the progress values, of the completed run before it: nothing left
\* by an earlier run changes the result.
C12_Deterministic ==
    (stub.det /\ prev # <<>> /\ returned = "layout") =>
        /\ result = prev[1].result
        /\ updated = prev[1].updated

C12_Witness ==
    /\ stub.det
    /\ prev # <<>>
    /\ returned = "layout"
    /\ runs = 2
    /\ Len(kernel_calls) = 1
    /\ Len(placed) >= 4
    /\ dy > 0

\* the kernel calls of this run that returned a layout
KernelPlaced == {c \in DOMAIN placed : Len(placed[c].ids) >= 3}

\* C13: a kernel failure is fatal to the run: the exception leaves run(), the
\* failing component is not skipped (a run that returns the layout has placed
\* every component, each kernel call having returned), no later component is
\* laid out, no progress event follows and no layout is returned.
C13_KernelFailureFatal ==
    /\ [](returned = "raised" =>
            /\ pc = "done"
            /\ result = <<>>
            /\ canceled = 0
            /\ Len(placed) = i
            /\ Len(updated) = i
            /\ i < Len(clusters)
            /\ Len(clusters[i + 1]) >= 3
            /\ Last(kernel_calls).ids = clusters[i + 1])
    /\ [](returned = "layout" =>
            /\ Len(placed) = Len(clusters)
            /\ Len(kernel_calls) = Cardinality(KernelPlaced))
    /\ [][(returned = "raised" /\ runs' = runs) =>
            /\ returned' = "raised"
            /\ UNCHANGED <<pc, i, result, updated, placed, writes, layout,
                           kernel_calls>>]_vars

C13_Witness ==
    /\ returned = "raised"
    /\ Len(clusters) >= 3
    /\ Len(kernel_calls) = 1
    /\ updated = <<>>

\* the vertices of cluster c
Members(c) == Range(clusters[c])

\* a set of vertices that is one connected component of the graph
IsComponent(S) ==
    /\ S # {}
    /\ \A v \in S : Reach(edges, {v}) = S

\* C17: the clusters partition the vertex set into the connected components
\* and are processed by size descending, so the first one placed, which sets
\* max_width, is a largest one.
C17_PartitionLargestFirst ==
    pc # "idle" =>
        /\ \A v \in Vertices(vcount) :
              Cardinality({c \in DOMAIN clusters : v \in Members(c)}) = 1
        /\ \A c \in DOMAIN clusters :
              /\ Members(c) \subseteq Vertices(vcount)
              /\ Cardinality(Members(c)) = Len(clusters[c])
              /\ IsComponent(Members(c))
        /\ \A a, b \in DOMAIN clusters :
              a < b => Len(clusters[a]) >= Len(clusters[b])
        /\ \A c \in DOMAIN placed :
              /\ placed[c].ids = clusters[c]
              /\ Len(placed[1].ids) >= Len(placed[c].ids)
        /\ (placed # <<>> => max_width = 2 * placed[1].width)

C17_Witness ==
    /\ returned = "layout"
    /\ Len(clusters) = 4
    /\ clusters[1][1] > clusters[3][1]
    /\ Len(clusters[1]) = 3
    /\ Len(clusters[2]) = 1
    /\ clusters[2][1] < clusters[3][1]

\* C18: the size of a component alone selects its path and border: sizes 1
\* and 2 use the fixed layout with border 2r and no kernel call, every size
\* of 3 or more is one kernel call, on the induced subgraph of that component
\* only, with border 5r.
C18_PathBySize ==
    /\ \A c \in DOMAIN placed :
          LET n == Len(placed[c].ids)
              calls == {k \in DOMAIN kernel_calls :
                           kernel_calls[k].ids = placed[c].ids}
          IN /\ (n \in {1, 2} =>
                    /\ placed[c].border = 2 * radius
                    /\ calls = {}
                    /\ placed[c].local = FixedLayout(n, radius))
             /\ (n >= 3 =>
                    /\ placed[c].border = 5 * radius
                    /\ Cardinality(calls) = 1)
    /\ \A k \in DOMAIN kernel_calls :
          /\ k <= Len(clusters)
          /\ Len(kernel_calls[k].ids) >= 3
          /\ kernel_calls[k].ids = clusters[k]
          /\ kernel_calls[k].edges =
                 {e \in edges : e \cap Range(kernel_calls[k].ids) # {}}
    /\ Len(kernel_calls) <= Len(placed) + 1

C18_Witness ==
    /\ returned = "layout"
    /\ Len(kernel_calls) = 1
    /\ kernel_calls[1].ids[1] > 0
    /\ Cardinality(kernel_calls[1].edges) = 2
    /\ placed[1].border = 5 * radius
    /\ \E c \in DOMAIN placed : Len(placed[c].ids) = 1

\* the coordinates of the c-th placed component in the array
PlacedXs(c) == {layout[placed[c].ids[k]][1] : k \in DOMAIN placed[c].ids}
PlacedYs(c) == {layout[placed[c].ids[k]][2] : k \in DOMAIN placed[c].ids}

\* C19: each component is moved so that the top-left corner of its bordered
\* box lies on the cursor: its smallest x is dx + border, its smallest y is
\* dy + border, all its vertices lie in the box shrunk by the border, and the
\* differences between its vertices are those of the local layout.
C19_TranslatedToCursor ==
    \A c \in DOMAIN placed :
        LET p == placed[c]
        IN /\ SetMin(PlacedXs(c)) = p.left + p.border
           /\ SetMin(PlacedYs(c)) = p.top + p.border
           /\ SetMax(PlacedXs(c)) = p.left + p.width - p.border
           /\ SetMax(PlacedYs(c)) = p.top + p.height - p.border
           /\ \A k \in DOMAIN p.ids :
                 /\ layout[p.ids[k]][1] - layout[p.ids[1]][1] =
                        p.local[k][1] - p.local[1][1]
                 /\ layout[p.ids[k]][2] - layout[p.ids[1]][2] =
                        p.local[k][2] - p.local[1][2]

C19_Witness ==
    /\ Len(placed) >= 2
    /\ Len(placed[1].ids) >= 3
    /\ placed[1].width > placed[1].height
    /\ placed[2].left > 0
    /\ layout[placed[1].ids[2]][2] < layout[placed[1].ids[1]][2]

\* C20: max_width is set once in a run, by the first component placed, to
\* twice its bordered width; from then on it is positive and neither a later
\* component nor a wrap changes it.
C20_MaxWidthSetOnce ==
    /\ [](pc \in {"loop", "body"} /\ placed = <<>> => max_width = 0)
    /\ [](placed # <<>> => max_width = 2 * placed[1].width /\ max_width > 0)
    /\ [][(max_width # 0 /\ runs' = runs) => max_width' = max_width]_vars
    /\ [][(runs' = runs /\ max_width' # max_width) =>
            placed = <<>> /\ Len(placed') = 1]_vars

C20_Witness ==
    /\ Len(placed) >= 3
    /\ placed[2].width # placed[1].width
    /\ dy > 0
    /\ max_width = 2 * placed[1].width

\* the placed components that stand in the row of the c-th, up to the c-th
Row(c) == {b \in 1..c : placed[b].top = placed[c].top}

RowHeight(c) == SetMax({placed[b].height : b \in Row(c)})

\* the cursor as the c-th placed component left it
CursorAfter(c) ==
    IF c < Len(placed)
    THEN [dx |-> placed[c + 1].left, dy |-> placed[c + 1].top]
    ELSE [dx |-> dx, dy |-> dy]

\* C21: a component that brings dx to max_width or beyond ends its row: dx
\* becomes 0, dy grows by the largest bordered height of the row, that
\* component included, and the row's tracker is 0 again; any other component
\* leaves dy as it was and the tracker at the largest height of the row so far.
C21_RowWrap ==
    \A c \in DOMAIN placed :
        LET wrap == placed[c].left + placed[c].width >= max_width
            cur == CursorAfter(c)
        IN  /\ wrap =>
                /\ cur.dx = 0
                /\ cur.dy = placed[c].top + RowHeight(c)
                /\ (c = Len(placed) => max_height = 0)
            /\ ~wrap =>
                /\ cur.dy = placed[c].top
                /\ (c = Len(placed) => max_height = RowHeight(c))

C21_Witness ==
    /\ Len(placed) = 4
    /\ placed[1].height = 8 * radius
    /\ placed[2].top = 0
    /\ placed[3].top = 8 * radius
    /\ placed[4].top = 8 * radius
    /\ dx = 0
    /\ dy = 12 * radius
    /\ max_height = 0

\* the vertices of the first k components in processing order
SizeOfFirst(k) == SumSeq([c \in 1..k |-> Len(clusters[c])])

\* C22: progress is emitted once per component: there are as many events as
\* components placed, a completed run has one per connected component, the
\* k-th event carries the number of vertices of the first k components, and
\* when it is out the rows of those components are written and the cursor
\* has moved past the k-th.
C22_ProgressPerComponent ==
    /\ Len(updated) = Len(placed)
    /\ (pc \in {"loop", "body"} => Len(updated) = i)
    /\ (returned = "layout" => Len(updated) = Len(Clusters(vcount, edges)))
    /\ \A k \in DOMAIN updated :
          /\ updated[k] = SizeOfFirst(k)
          /\ placed[k].ids = clusters[k]
          /\ \A v \in Range(clusters[k]) : WriteCount(v) = 1
          /\ CursorAfter(k) # [dx |-> placed[k].left, dy |-> placed[k].top]
    /\ Len(writes) = (IF updated = <<>> THEN 0 ELSE Last(updated))

C22_Witness ==
    /\ returned = "layout"
    /\ Len(kernel_calls) = 1
    /\ Len(updated) = 3
    /\ updated = <<3, 4, 5>>

\* C25: a graph without edges is laid out in rows of two boxes of 4r by 4r:
\* vertex k, the k-th processed, stands at (2r + 4r (k mod 2), 2r + 4r (k div 2)).
C25_IsolatedVertices ==
    (returned = "layout" /\ edges = {}) =>
        \A k \in Vertices(vcount) :
            /\ clusters[k + 1] = <<k>>
            /\ placed[k + 1].width = 4 * radius
            /\ placed[k + 1].height = 4 * radius
            /\ result[k] = <<2 * radius + 4 * radius * (k % 2),
                             2 * radius + 4 * radius * (k \div 2)>>

C25_Witness ==
    /\ returned = "layout"
    /\ edges = {}
    /\ vcount >= 5
    /\ result[4] = <<2 * radius, 10 * radius>>
    /\ result[3] = <<6 * radius, 6 * radius>>

\* C26: the packing cursor never leaves the quadrant: dx and dy are never
\* negative, dx stays below max_width once a component is placed, dy never
\* decreases from one component to the next, and every coordinate written
\* lies at least 2r from both axes.
C26_CursorInvariant ==
    /\ dx >= 0
    /\ dy >= 0
    /\ (placed # <<>> => dx < max_width)
    /\ \A c \in DOMAIN placed :
          /\ placed[c].left >= 0
          /\ placed[c].top >= 0
          /\ (c > 1 => placed[c].left < max_width)
          /\ CursorAfter(c).dy >= placed[c].top
    /\ \A k \in DOMAIN writes :
          /\ layout[writes[k].index][1] >= 2 * radius
          /\ layout[writes[k].index][2] >= 2 * radius

C26_Witness ==
    /\ pc = "loop"
    /\ Len(placed) >= 3
    /\ Len(kernel_calls) = 1
    /\ \E k \in DOMAIN placed[1].local : placed[1].local[k][2] < 0
    /\ dy > 0
    /\ dx > 0

-----------------------------------------------------------------------------
(* gui.py: WorkerSet and the main window's layout workers *)

\* a NetworkWorker constructed on the empty graph and never run
WorkerIdle ==
    /\ vcount = 0
    /\ edges = {}
    /\ max = 0
    /\ radius = RADIUS
    /\ stub = AnyKernel
    /\ should_stop = FALSE
    /\ pc = "idle"
    /\ runs = 0
    /\ prev = <<>>
    /\ layout = <<>>
    /\ clusters = <<>>
    /\ i = 0
    /\ dx = 0
    /\ dy = 0
    /\ max_height = 0
    /\ max_width = 0
    /\ total_count = 0
    /\ updated = <<>>
    /\ canceled = 0
    /\ returned = "none"
    /\ result = <<>>
    /\ kernel_calls = <<>>
    /\ writes = <<>>
    /\ placed = <<>>
    /\ stop_pos = <<>>

workerVars ==
    <<graphVars, should_stop, pc, runs, prev, localVars, obsVars, stop_pos>>

\* lines 48-51: _pre_add shows the widget when the set is empty
_pre_add == IF workers = {} THEN TRUE ELSE progress_visible

\* lines 53-60: _post_add starts one more thread for each worker of ws
_post_add(ws) == [w \in Workers |-> IF w \in ws THEN threads[w] + 1 ELSE threads[w]]

\* lines 65-68: _post_remove hides the widget when the set has become empty
_post_remove(rest) == IF rest = {} THEN FALSE ELSE progress_visible

\* lines 70-73
add(worker) ==
    /\ threads[worker] < MaxThreads
    /\ progress_visible' = _pre_add
    /\ workers' = workers \cup {worker}
    /\ threads' = _post_add({worker})
    /\ UNCHANGED key_error

\* lines 75-79
update(ws) ==
    /\ \A w \in ws : threads[w] < MaxThreads
    /\ progress_visible' = _pre_add
    /\ workers' = workers \cup ws
    /\ threads' = _post_add(ws)
    /\ UNCHANGED key_error

\* lines 81-84; set.remove of a worker that is not a member raises KeyError
\* before _post_remove
remove(worker) ==
    /\ IF worker \in workers
       THEN /\ workers' = workers \ {worker}
            /\ progress_visible' = _post_remove(workers \ {worker})
            /\ UNCHANGED key_error
       ELSE /\ key_error' = TRUE
            /\ UNCHANGED <<workers, progress_visible>>
    /\ UNCHANGED threads

WorkerSetAdd ==
    /\ \E w \in Workers : add(w)
    /\ UNCHANGED <<has_scores, graph_version, wk, tsne_pending, workerVars, gmlVars, viewVars>>

WorkerSetUpdate ==
    /\ \E ws \in SUBSET Workers : update(ws)
    /\ UNCHANGED <<has_scores, graph_version, wk, tsne_pending, workerVars, gmlVars, viewVars>>

WorkerSetRemove ==
    /\ \E w \in Workers : remove(w)
    /\ UNCHANGED <<has_scores, graph_version, wk, tsne_pending, workerVars, gmlVars, viewVars>>

InitWorkerSet == GmlIdle /\ GuiIdle /\ WorkerIdle

NextWorkerSet == WorkerSetAdd \/ WorkerSetUpdate \/ WorkerSetRemove

\* any sequence of add, update and remove calls on a WorkerSet
SpecWorkerSet == InitWorkerSet /\ [][NextWorkerSet]_vars

\* C15: the progress widget is visible exactly when the set of workers is
\* not empty.
C15_VisibleIffWorkers == progress_visible <=> (workers # {})

\* the workers created so far, and the next one
Created == {w \in Workers : wk[w].state # "none"}

Fresh == Cardinality(Created) + 1

Running == {w \in Workers : wk[w].state = "running"}

\* lines 396-402: NetworkWorker(self.graph), with or without a t-SNE
\* drawing connected to its finished signal (line 634)
NetworkWorker(tsne) ==
    [kind |-> "network", state |-> "running", graph |-> graph_version + 1,
     stop |-> FALSE, tsne |-> tsne, after |-> 0]

\* lines 465-470: TSNEWorker, started by draw_tsne after the layout worker
\* w finished, or by draw itself (w = 0)
TSNEWorker(w) ==
    [kind |-> "tsne", state |-> "running", graph |-> 0, stop |-> FALSE,
     tsne |-> "no", after |-> w]

\* lines 639 and 628: the worker joins the set, which starts its thread
\* (lines 53-60)
Start(w, rec) ==
    /\ w \in Workers
    /\ add(w)
    /\ wk' = [wk EXCEPT ![w] = rec]

\* lines 584-604 then 606-643 with 349-402: createGraph empties and refills
\* self.graph in place; draw builds NetworkWorker(self.graph) on that same
\* object, connects the t-SNE drawing to its finished signal if both views
\* are asked for, and adds it to the set
createGraphAndDraw(tsne) ==
    /\ graph_version < MaxGraphs
    /\ graph_version' = graph_version + 1
    /\ Start(Fresh, NetworkWorker(tsne))
    /\ tsne_pending' = tsne_pending + (IF tsne = "waiting" THEN 1 ELSE 0)

\* lines 537-546: the scores of an opened file are ready, draw(which='all')
ScoresComputed ==
    /\ has_scores' = TRUE
    /\ createGraphAndDraw("waiting")
    /\ UNCHANGED <<workerVars, gmlVars, viewVars>>

\* lines 553-569: the network options dialog is accepted with new options,
\* draw(which='network'). The t-SNE options dialog (lines 570-579) calls
\* draw(scores=...), a keyword draw does not take, so it starts nothing.
EditNetworkOptions ==
    /\ has_scores
    /\ createGraphAndDraw("no")
    /\ UNCHANGED <<has_scores, workerVars, gmlVars, viewVars>>

\* lines 625-628 with 419-475, called by draw itself (line 636): drawTSNE
\* returns a worker when it has no layout and some vertex has a neighbour
\* above the threshold
draw_tsne ==
    \/ Start(Fresh, TSNEWorker(0))
    \/ UNCHANGED <<workers, progress_visible, threads, key_error, wk>>

\* lines 848-857 and 615-639: a loaded project is drawn with
\* compute_layouts=False. With a stored network layout no layout worker is
\* made and draw_tsne is called at once (line 636); without one the layout
\* is computed and the t-SNE drawing waits for it
ProjectLoaded ==
    /\ has_scores' = TRUE
    /\ \/ /\ graph_version < MaxGraphs
          /\ graph_version' = graph_version + 1
          /\ draw_tsne
          /\ UNCHANGED tsne_pending
       \/ createGraphAndDraw("waiting")
    /\ UNCHANGED <<workerVars, gmlVars, viewVars>>

\* line 56: the cancel button calls stop() on every worker connected to it
PressCancel ==
    /\ Running # {}
    /\ \E w \in Running : ~wk[w].stop
    /\ wk' = [w \in Workers |->
                IF threads[w] > 0 /\ wk[w].state = "running"
                THEN [wk[w] EXCEPT !.stop = TRUE]
                ELSE wk[w]]
    /\ UNCHANGED <<workers, progress_visible, threads, has_scores, key_error,
                   tsne_pending, graph_version, workerVars, gmlVars, viewVars>>

\* a worker that was cancelled stays in the set
EndsUnremoved(w, o) ==
    /\ w \in Running
    /\ wk' = [wk EXCEPT ![w].state = o]
    /\ IF o = "canceled"
       THEN UNCHANGED <<workers, progress_visible, threads, key_error>>
       ELSE remove(w)
    /\ UNCHANGED <<has_scores, graph_version, tsne_pending, workerVars, gmlVars, viewVars>>

\* the worker ends in the outcome o and the slot connected to it removes it
\* from the set
Ends(w, o) ==
    /\ w \in Running
    /\ wk' = [wk EXCEPT ![w].state = o]
    /\ remove(w)
    /\ UNCHANGED <<has_scores, graph_version, tsne_pending, workerVars, gmlVars, viewVars>>

\* lines 390-394 and 443-446: run() returned its result, process_finished,
\* the first slot connected to finished, removes the worker
WorkerFinished == \E w \in Workers : Ends(w, "finished")

\* line 57: run() saw the stop request
WorkerCanceled == \E w \in Workers : wk[w].stop /\ Ends(w, "canceled")

\* line 58: run() raised
WorkerError == \E w \in Workers : Ends(w, "error")

\* lines 625-628, run for the layout worker w: drawTSNE returns a worker
\* when some vertex has a neighbour above the threshold, and draws at once
\* when none has
draw_tsne_after(w) ==
    /\ tsne_pending' = tsne_pending - 1
    /\ \/ /\ Fresh \in Workers
          /\ add(Fresh)
          /\ wk' = [wk EXCEPT ![w].tsne = "drawn", ![Fresh] = TSNEWorker(w)]
       \/ /\ wk' = [wk EXCEPT ![w].tsne = "drawn"]
          /\ UNCHANGED <<workers, progress_visible, threads, key_error>>
    /\ UNCHANGED <<has_scores, graph_version, workerVars, gmlVars, viewVars>>

\* the t-SNE drawing connected to every ending of the layout worker
AnyEndDrawsTSNE ==
    \E w \in Workers :
        /\ wk[w].tsne = "waiting"
        /\ wk[w].state \in {"finished", "canceled", "error"}
        /\ draw_tsne_after(w)

\* line 634: draw_tsne is the second slot connected to the layout worker's
\* finished signal, after process_finished (line 400)
FinishedDrawsTSNE ==
    \E w \in Workers :
        /\ wk[w].tsne = "waiting"
        /\ wk[w].state = "finished"
        /\ draw_tsne_after(w)

InitMainWindow == GmlIdle /\ GuiIdle /\ WorkerIdle

NextMainWindow ==
    \/ ScoresComputed
    \/ EditNetworkOptions
    \/ ProjectLoaded
    \/ PressCancel
    \/ WorkerFinished
    \/ WorkerCanceled
    \/ WorkerError
    \/ FinishedDrawsTSNE

\* the main window creating workers as its user opens files and projects
\* and changes the network options
SpecMainWindow == InitMainWindow /\ [][NextMainWindow]_vars

\* C14: at most one layout worker runs against the window's graph, and the
\* graph a running worker was given has not been rebuilt since.
C14_ExclusiveLayout ==
    /\ Cardinality({w \in Running : wk[w].kind = "network"}) <= 1
    /\ \A w \in Running : wk[w].kind = "network" => wk[w].graph = graph_version

\* C23: every worker added to the set got one thread of its own and is in
\* the set exactly until its terminal notification (finished, canceled or
\* error) removed it; no remove() was called for a worker outside the set;
\* and when every added worker has ended, the set is empty and the progress
\* widget is hidden.
C23_AddedUntilTerminal ==
    /\ ~key_error
    /\ \A w \in Workers :
        /\ threads[w] = (IF w \in Created THEN 1 ELSE 0)
        /\ w \in workers <=> w \in Running
    /\ Running = {} => workers = {} /\ ~progress_visible

\* every added worker has ended, some by each of the three notifications
C23_Witness ==
    /\ Running = {}
    /\ workers = {}
    /\ ~progress_visible
    /\ \A o \in {"finished", "canceled", "error"} :
        \E w \in Workers : wk[w].state = o

\* C24: draw with both views. A t-SNE drawing that waited for a layout
\* worker was made only after that worker finished and had been removed from
\* the set; a layout worker that was cancelled or failed has no t-SNE
\* drawing and no t-SNE worker after it; and the only drawings still to come
\* are those waiting for a layout worker, so that a draw needing no layout
\* worker has made its t-SNE drawing at once.
C24_TSNEAfterFinished ==
    /\ \A w \in Workers :
        /\ wk[w].tsne = "drawn" => wk[w].state = "finished" /\ w \notin workers
        /\ wk[w].state \in {"canceled", "error"} =>
            /\ wk[w].tsne # "drawn"
            /\ \A t \in Workers : wk[t].after # w
        /\ wk[w].after # 0 =>
            /\ wk[wk[w].after].kind = "network"
            /\ wk[wk[w].after].state = "finished"
            /\ wk[wk[w].after].tsne = "drawn"
            /\ wk[w].after \notin workers
    /\ tsne_pending = Cardinality({w \in Workers : wk[w].tsne = "waiting"})

\* a t-SNE worker runs after its layout worker finished, another layout
\* worker was cancelled with its t-SNE drawing never made
C24_Witness ==
    /\ \E t \in Running : wk[t].kind = "tsne" /\ wk[t].after # 0
    /\ \E w \in Workers : wk[w].state = "canceled" /\ wk[w].tsne = "waiting"

-----------------------------------------------------------------------------
(* lib/ui/widgets/loading_views.py: LoadingViewMixin *)

Policies == {"ScrollBarAsNeeded", "ScrollBarAlwaysOff", "ScrollBarAlwaysOn"}

\* the arguments setLoading is called with, and bool() of them
Flags == {0, 1, 2}

bool(value) == value # 0

Call(op, arg) == [op |-> op, arg |-> arg, forwarded |-> FALSE]

Event(op, fwd) == [op |-> op, arg |-> 0, forwarded |-> fwd]

\* the flag stored as given, not as bool(value)
setLoadingRaw(value) ==
    /\ Len(received) < MaxCalls
    /\ received' = Append(received, Call("setLoading", value))
    /\ _loading' = (value = 1)
    /\ IF _loading'
       THEN /\ signalsBlocked' = TRUE
            /\ movie' = TRUE
            /\ verticalScrollBarPolicy' = "ScrollBarAlwaysOff"
       ELSE /\ movie' = FALSE
            /\ verticalScrollBarPolicy' = _scroll_policy
            /\ signalsBlocked' = FALSE
    /\ UNCHANGED _scroll_policy

\* lines 27-37
setLoading(value) ==
    /\ Len(received) < MaxCalls
    /\ received' = Append(received, Call("setLoading", value))
    /\ _loading' = bool(value)
    /\ IF _loading'
       THEN /\ signalsBlocked' = TRUE
            /\ movie' = TRUE
            /\ verticalScrollBarPolicy' = "ScrollBarAlwaysOff"
       ELSE /\ movie' = FALSE
            /\ verticalScrollBarPolicy' = _scroll_policy
            /\ signalsBlocked' = FALSE
    /\ UNCHANGED _scroll_policy

\* lines 39-41: the policy in force before the call is the one remembered
setVerticalScrollBarPolicy(policy) ==
    /\ Len(received) < MaxCalls
    /\ received' = Append(received, Call("setVerticalScrollBarPolicy", policy))
    /\ _scroll_policy' = verticalScrollBarPolicy
    /\ verticalScrollBarPolicy' = policy
    /\ UNCHANGED <<_loading, signalsBlocked, movie>>

\* the event handed to the underlying view whatever the flag
keyPressEventAlways ==
    /\ Len(received) < MaxCalls
    /\ received' = Append(received, Event("keyPressEvent", TRUE))
    /\ UNCHANGED <<_loading, _scroll_policy, verticalScrollBarPolicy,
                   signalsBlocked, movie>>

\* lines 76-79
keyPressEvent ==
    /\ Len(received) < MaxCalls
    /\ received' = Append(received, Event("keyPressEvent", ~_loading))
    /\ UNCHANGED <<_loading, _scroll_policy, verticalScrollBarPolicy,
                   signalsBlocked, movie>>

\* lines 81-84
wheelEvent ==
    /\ Len(received) < MaxCalls
    /\ received' = Append(received, Event("wheelEvent", ~_loading))
    /\ UNCHANGED <<_loading, _scroll_policy, verticalScrollBarPolicy,
                   signalsBlocked, movie>>

ViewSetLoading ==
    /\ \E value \in Flags : setLoading(value)
    /\ UNCHANGED <<workers, progress_visible, threads, has_scores, graph_version,
                   wk, key_error, tsne_pending, workerVars, gmlVars>>

ViewSetPolicy ==
    /\ \E policy \in Policies : setVerticalScrollBarPolicy(policy)
    /\ UNCHANGED <<workers, progress_visible, threads, has_scores, graph_version,
                   wk, key_error, tsne_pending, workerVars, gmlVars>>

ViewKeyPress ==
    /\ keyPressEvent
    /\ UNCHANGED <<workers, progress_visible, threads, has_scores, graph_version,
                   wk, key_error, tsne_pending, workerVars, gmlVars>>

ViewWheel ==
    /\ wheelEvent
    /\ UNCHANGED <<workers, progress_visible, threads, has_scores, graph_version,
                   wk, key_error, tsne_pending, workerVars, gmlVars>>

InitLoadingView == GmlIdle /\ GuiIdle /\ WorkerIdle

NextLoadingView ==
    \/ ViewSetLoading
    \/ ViewSetPolicy
    \/ ViewKeyPress
    \/ ViewWheel

\* one view receiving setLoading and setVerticalScrollBarPolicy calls and
\* key and wheel events in any order
SpecLoadingView == InitLoadingView /\ [][NextLoadingView]_vars

\* the calls of one operation among the first k received
CallsOf(op, k) == {j \in 1..k : received[j].op = op}

\* what the last setLoading among the first k calls asked for; not loading
\* if there was none
LoadingAsked(k) ==
    /\ CallsOf("setLoading", k) # {}
    /\ received[SetMax(CallsOf("setLoading", k))].arg # 0

\* the policy last requested through setVerticalScrollBarPolicy, the initial
\* one if none was
Requested ==
    IF CallsOf("setVerticalScrollBarPolicy", Len(received)) = {}
    THEN "ScrollBarAsNeeded"
    ELSE received[SetMax(CallsOf("setVerticalScrollBarPolicy", Len(received)))].arg

\* C27: an input event reached the underlying view exactly if the view was
\* not asked to load by the last setLoading before it, and the view's signals
\* are blocked exactly while it is asked to load.
C27_LoadingBlocksInput ==
    /\ \A k \in 1..Len(received) :
        received[k].op \in {"keyPressEvent", "wheelEvent"} =>
            (received[k].forwarded <=> ~LoadingAsked(k))
    /\ signalsBlocked <=> LoadingAsked(Len(received))
    /\ _loading <=> LoadingAsked(Len(received))

\* an event swallowed while loading and, after setLoading with a false
\* value, an event of the same kind forwarded
C27_Witness ==
    \E j, k \in 1..Len(received) :
        /\ j < k
        /\ received[j].op = "wheelEvent" /\ ~received[j].forwarded
        /\ received[k].op = "wheelEvent" /\ received[k].forwarded
        /\ ~signalsBlocked

\* C28: the vertical scroll bar is off while the view is loading, and after
\* setLoading(True) followed by setLoading(False) the view has the policy
\* last requested through setVerticalScrollBarPolicy.
C28_ScrollPolicyRoundTrip ==
    /\ _loading => verticalScrollBarPolicy = "ScrollBarAlwaysOff"
    /\ \A k \in 2..Len(received) :
        /\ k = Len(received)
        /\ received[k - 1].op = "setLoading" /\ received[k - 1].arg # 0
        /\ received[k].op = "setLoading" /\ received[k].arg = 0
        => verticalScrollBarPolicy = Requested

-----------------------------------------------------------------------------
(* lib/graphml.py: GraphMLWriter.tostring and GraphMLParser.fromstring *)

\* attribute values: a Python number, str, bool or None. An int and the
\* float of the same value are equal in Python and are one value here.
Num(n) == [t |-> "num", n |-> n, s |-> ""]

Str(x) == [t |-> "str", n |-> 0, s |-> x]

Bool(b) == [t |-> "bool", n |-> IF b THEN 1 ELSE 0, s |-> ""]

NoneVal == [t |-> "none", n |-> 0, s |-> ""]

\* the text of an XML element: a string, or None for an empty element
Text(x) == [none |-> FALSE, s |-> x]

Digits == <<"0", "1", "2", "3", "4", "5", "6", "7", "8", "9">>

\* str() of a non-negative int
RECURSIVE IntStr(_)
IntStr(n) ==
    IF n < 10 THEN Digits[n + 1] ELSE IntStr(n \div 10) \o Digits[(n % 10) + 1]

\* str(val), lines 208 and 231
str(val) ==
    CASE val.t = "num" -> IntStr(val.n)
      [] val.t = "str" -> val.s
      [] val.t = "bool" -> IF val.n = 1 THEN "True" ELSE "False"
      [] OTHER -> "None"

\* the numbers whose decimal form the parser may meet
Parsable == 0..(MaxNum + MaxV + 10)

\* int(text) and float(text) succeed on a decimal numeral
IsNumeral(x) == \E n \in Parsable : IntStr(n) = x

Numeral(x) == CHOOSE n \in Parsable : IntStr(n) = x

\* lines 234 and 51: a text written as "" is read back as None
Reparsed(x) == IF x = "" THEN NoText ELSE Text(x)

\* the elements of a set in some fixed order
RECURSIVE SeqOf(_)
SeqOf(S) ==
    IF S = {} THEN <<>>
    ELSE LET x == CHOOSE y \in S : TRUE IN <<x>> \o SeqOf(S \ {x})

\* lines 114-123; a bool is an int, so the first test takes it
_get_type(val) ==
    CASE val.t \in {"num", "bool"} -> "double"
      [] val.t = "str" -> "string"
      [] OTHER -> "False"

\* lines 140-179: the key elements, typed after the graph's value, the first
\* vertex's and the first edge's
Typed(first) == {a \in DOMAIN first : _get_type(first[a]) # "False"}

KeysFor(prefix, kind, first) ==
    {[id |-> prefix \o a, for |-> kind, name |-> a, type |-> _get_type(first[a])] :
        a \in Typed(first)}

\* lines 195-199, 213-222: the id of the vertex at position k (index k - 1)
NodeId(g, k) ==
    IF "name" \in DOMAIN g.vattrs
    THEN str(g.vattrs["name"][k])
    ELSE "n" \o IntStr(k - 1)

\* lines 202-209, 225-232: the data elements of the element at position k
DataOf(prefix, attrs, names, k) ==
    LET ns == SeqOf(names)
    IN  [j \in 1..Len(ns) |->
            [key |-> prefix \o ns[j], text |-> Reparsed(str(attrs[ns[j]][k]))]]

\* lines 126-234. graph.vs[0] and graph.es[0] raise IndexError when there are
\* attributes but no vertex or edge; data.text = graph[attr] takes only a str
tostring(g) ==
    LET gfirst == g.gattrs
        vfirst == [a \in DOMAIN g.vattrs |-> g.vattrs[a][1]]
        efirst == [a \in DOMAIN g.eattrs |-> g.eattrs[a][1]]
        gnames == SeqOf(Typed(gfirst))
    IN  IF \/ (DOMAIN g.vattrs # {} /\ g.nv = 0)
           \/ (DOMAIN g.eattrs # {} /\ g.es = <<>>)
           \/ \E a \in Typed(gfirst) : g.gattrs[a].t # "str"
        THEN [NoDoc EXCEPT !.raised = TRUE]
        ELSE [raised |-> FALSE,
              keys |-> KeysFor("g_", "graph", gfirst)
                        \cup KeysFor("v_", "node", vfirst)
                        \cup KeysFor("e_", "edge", efirst),
              gdata |-> [j \in 1..Len(gnames) |->
                            [key |-> "g_" \o gnames[j],
                             text |-> Reparsed(g.gattrs[gnames[j]].s)]],
              nodes |-> [k \in 1..g.nv |->
                            [id |-> NodeId(g, k),
                             data |-> DataOf("v_", g.vattrs,
                                             Typed(vfirst), k)]],
              edges |-> [k \in 1..Len(g.es) |->
                            [source |-> NodeId(g, g.es[k][1] + 1),
                             target |-> NodeId(g, g.es[k][2] + 1),
                             data |-> DataOf("e_", g.eattrs,
                                             Typed(efirst), k)]]]

\* lines 14-33, on the text of a data element; float(None) and int(None)
\* raise TypeError, which the except clauses do not catch
Declared(keys, key) == \E k \in keys : k.id = key

KeyOf(keys, key) == CHOOSE k \in keys : k.id = key

Converted(val) == [raised |-> FALSE, val |-> val]

ConvertRaised == [raised |-> TRUE, val |-> NoneVal]

_convert(keys, key, value) ==
    IF ~Declared(keys, key) THEN Converted(NoneVal)
    ELSE LET t == KeyOf(keys, key).type
         IN  CASE t = "boolean" -> Converted(Bool(~value.none))
               [] t \in {"int", "long", "float", "double"} ->
                    IF value.none THEN ConvertRaised
                    ELSE IF IsNumeral(value.s) THEN Converted(Num(Numeral(value.s)))
                    ELSE Converted(Num(0))
               [] t = "string" ->
                    Converted(Str(IF value.none THEN "None" ELSE value.s))
               [] OTHER -> Converted(NoneVal)

\* line 87: int(value) of a converted value
IntRaises(val) == val.t = "none" \/ (val.t = "str" /\ ~IsNumeral(val.s))

IntOf(val) == IF val.t = "str" THEN Numeral(val.s) ELSE val.n

\* lines 71-73, 81-83, 96-98: the positions in ds of the data elements that
\* set an attribute of the given kind, and the attribute each one sets
Loaded(keys, kind, ds) ==
    {j \in 1..Len(ds) : Declared(keys, ds[j].key) /\ KeyOf(keys, ds[j].key).for = kind}

AttrName(keys, d) == KeyOf(keys, d.key).name

Sets(keys, kind, ds, a) == {j \in Loaded(keys, kind, ds) : AttrName(keys, ds[j]) = a}

NamesSet(keys, kind, ds) == {AttrName(keys, ds[j]) : j \in Loaded(keys, kind, ds)}

\* the value ds leaves in attribute a: that of its last data element for a
ValueSet(keys, kind, ds, a) ==
    LET d == ds[SetMax(Sets(keys, kind, ds, a))]
    IN  _convert(keys, d.key, d.text).val

AnyRaised(keys, kind, ds) ==
    \E j \in Loaded(keys, kind, ds) : _convert(keys, ds[j].key, ds[j].text).raised

\* lines 56-103
fromstring(doc) ==
    LET keys == doc.keys
        n == Len(doc.nodes)
        \* lines 79-88
        Named == {k \in 1..n : Sets(keys, "node", doc.nodes[k].data, "name") # {}}
        NameData(k) ==
            {_convert(keys, doc.nodes[k].data[j].key, doc.nodes[k].data[j].text) :
                j \in Sets(keys, "node", doc.nodes[k].data, "name")}
        vnames == IF n = 0 THEN {}
                  ELSE {"name"} \cup UNION {NamesSet(keys, "node", doc.nodes[k].data) :
                                                k \in 1..n}
        vvalue(a, k) ==
            IF Sets(keys, "node", doc.nodes[k].data, a) # {}
            THEN ValueSet(keys, "node", doc.nodes[k].data, a)
            ELSE IF a = "name" THEN Str(doc.nodes[k].id) ELSE NoneVal
        \* lines 91-95: an endpoint is an index if the node carried a name,
        \* else the id, which add_edge looks up among the vertex names
        HasIndex(x) == \E k \in Named : doc.nodes[k].id = x
        IndexOf(x) ==
            LET k == SetMax({k \in Named : doc.nodes[k].id = x})
            IN  IntOf(ValueSet(keys, "node", doc.nodes[k].data, "name"))
        ByName(x) == {k \in 1..n : vvalue("name", k) = Str(x)}
        Resolves(x) == IF HasIndex(x) THEN IndexOf(x) \in 0..(n - 1) ELSE ByName(x) # {}
        Endpoint(x) == IF HasIndex(x) THEN IndexOf(x) ELSE SetMin(ByName(x)) - 1
        m == Len(doc.edges)
        enames == UNION {NamesSet(keys, "edge", doc.edges[k].data) : k \in 1..m}
        evalue(a, k) ==
            IF Sets(keys, "edge", doc.edges[k].data, a) # {}
            THEN ValueSet(keys, "edge", doc.edges[k].data, a)
            ELSE NoneVal
        gnames == NamesSet(keys, "graph", doc.gdata)
        raises ==
            \/ AnyRaised(keys, "graph", doc.gdata)
            \/ \E k \in 1..n : AnyRaised(keys, "node", doc.nodes[k].data)
            \/ \E k \in Named : \E c \in NameData(k) : IntRaises(c.val)
            \/ \E k \in 1..m : ~Resolves(doc.edges[k].source)
            \/ \E k \in 1..m : ~Resolves(doc.edges[k].target)
            \/ \E k \in 1..m : AnyRaised(keys, "edge", doc.edges[k].data)
    IN  IF raises
        THEN [NoGraph EXCEPT !.raised = TRUE]
        ELSE [raised |-> FALSE,
              nv |-> n,
              es |-> [k \in 1..m |-> <<Endpoint(doc.edges[k].source),
                                       Endpoint(doc.edges[k].target)>>],
              gattrs |-> [a \in gnames |-> ValueSet(keys, "graph", doc.gdata, a)],
              vattrs |-> [a \in vnames |-> [k \in 1..n |-> vvalue(a, k)]],
              eattrs |-> [a \in enames |-> [k \in 1..m |-> evalue(a, k)]]]

\* the attribute values explored: numbers, and strings with the empty one
\* and a numeral among them
NumVals == {Num(x) : x \in 0..MaxNum}

StrVals == {Str(""), Str("a"), Str("1")}

\* one attribute of the given name with a value of one type for each of the
\* k elements, or no attribute
Columns(names, k) ==
    {<<>>} \cup
    IF k = 0 THEN {}
    ELSE UNION {{[a \in {name} |-> col] : col \in [1..k -> NumVals] \cup [1..k -> StrVals]} :
                    name \in names}

\* the edges explored: pairs of vertex indices, self-loops included
Pairs(nv) == {<<a, b>> \in (0..(nv - 1)) \X (0..(nv - 1)) : a <= b}

EdgeLists(nv) == UNION {[1..k -> Pairs(nv)] : k \in 0..MaxE}

\* lines 240-246: a graph with string graph attributes and numeric or string
\* vertex and edge attributes
GraphOf(nv, es, ga, va, ea) ==
    [raised |-> FALSE, nv |-> nv, es |-> es, gattrs |-> ga, vattrs |-> va,
     eattrs |-> ea]

InitGraphML ==
    /\ GuiIdle
    /\ WorkerIdle
    /\ \E nv \in 0..MaxV :
        \E es \in EdgeLists(nv) :
        \E ga \in {<<>>} \cup {[a \in {"foo"} |-> v] : v \in StrVals} :
        \E va \in Columns({"id", "name"}, nv) :
        \E ea \in Columns({"id"}, Len(es)) :
            graph = GraphOf(nv, es, ga, va, ea)
    /\ gxl = NoDoc
    /\ graph2 = NoGraph
    /\ gml_pc = "graph"

\* line 249
Write ==
    /\ gml_pc = "graph"
    /\ gxl' = tostring(graph)
    /\ gml_pc' = "written"
    /\ UNCHANGED <<graph, graph2, guiVars, workerVars>>

\* line 252
Read ==
    /\ gml_pc = "written"
    /\ ~gxl.raised
    /\ graph2' = fromstring(gxl)
    /\ gml_pc' = "parsed"
    /\ UNCHANGED <<graph, gxl, guiVars, workerVars>>

NextGraphML == Write \/ Read

\* a graph written as GraphML and read back
SpecGraphML == InitGraphML /\ [][NextGraphML]_vars

\* the attribute columns of a are those of b, value by value
SameColumns(a, b) ==
    \A x \in DOMAIN a : x \in DOMAIN b /\ b[x] = a[x]

\* C16: the graph read back has as many vertices and edges as the graph
\* written, the same graph attribute values, and for every vertex and edge
\* attribute of the graph written the same list of values.
C16_RoundTrip ==
    gml_pc = "parsed" =>
        /\ ~graph2.raised
        /\ graph2.nv = graph.nv
        /\ Len(graph2.es) = Len(graph.es)
        /\ SameColumns(graph.gattrs, graph2.gattrs)
        /\ SameColumns(graph.vattrs, graph2.vattrs)
        /\ SameColumns(graph.eattrs, graph2.eattrs)

\* an edge as the pair of vertices it joins
Joins(e) == {e[1], e[2]}

\* C30: the graph read back has the edges of the graph written, edge by
\* edge between the vertices at the same positions, whether or not the
\* vertices carry a 'name' attribute.
C30_EdgeEndpoints ==
    gml_pc = "parsed" =>
        /\ ~graph2.raised
        /\ Len(graph2.es) = Len(graph.es)
        /\ \A k \in 1..Len(graph.es) : Joins(graph2.es[k]) = Joins(graph.es[k])

-----------------------------------------------------------------------------
(* GraphMLParser.fromstring on documents not written by GraphMLWriter *)

\* the keys declared: one per attr.type for nodes, one for the graph and one
\* for edges
ParserKeys ==
    {[id |-> "k_" \o t, for |-> "node", name |-> t, type |-> t] :
        t \in {"boolean", "int", "long", "float", "double", "string"}}
    \cup {[id |-> "k_graph", for |-> "graph", name |-> "title", type |-> "string"],
          [id |-> "k_edge", for |-> "edge", name |-> "weight", type |-> "int"]}

\* the key attribute of a data element: a declared key or an undeclared one
KeyRefs == {k.id : k \in ParserKeys} \cup {"k_undeclared"}

\* the text of a data element: none, a truth value, a numeral, a word
Texts == {NoText, Text("true"), Text("false"), Text("1"), Text("a")}

DataSeqs(n) == UNION {[1..k -> [key : KeyRefs, text : Texts]] : k \in 0..n}

\* a document of one node and one edge on it, with data elements on the
\* graph, on the node or on the edge
DocOf(kind, ds) ==
    [raised |-> FALSE,
     keys |-> ParserKeys,
     gdata |-> IF kind = "graph" THEN ds ELSE <<>>,
     nodes |-> <<[id |-> "n0", data |-> IF kind = "node" THEN ds ELSE <<>>]>>,
     edges |-> <<[source |-> "n0", target |-> "n0",
                  data |-> IF kind = "edge" THEN ds ELSE <<>>]>>]

InitParser ==
    /\ GuiIdle
    /\ WorkerIdle
    /\ graph = NoGraph
    /\ \E kind \in {"graph", "node", "edge"} :
        \E ds \in DataSeqs(MaxData) :
            gxl = DocOf(kind, ds)
    /\ graph2 = NoGraph
    /\ gml_pc = "written"

NextParser == Read

\* a GraphML document read by GraphMLParser.fromstring
SpecParser == InitParser /\ [][NextParser]_vars

\* the data elements of the document's graph, node or edge, and the
\* attributes the parsed graph has there ('name' is the node's id)
DataAt(doc, kind) ==
    CASE kind = "graph" -> doc.gdata
      [] kind = "node" -> doc.nodes[1].data
      [] OTHER -> doc.edges[1].data

AttrsAt(g, kind) ==
    CASE kind = "graph" -> g.gattrs
      [] kind = "node" -> [a \in DOMAIN g.vattrs \ {"name"} |-> g.vattrs[a][1]]
      [] OTHER -> [a \in DOMAIN g.eattrs |-> g.eattrs[a][1]]

\* the keys declared for the kind of element
KeysAt(kind) == {k \in ParserKeys : k.for = kind}

\* val is the value the declared type gives the text
ValueByType(t, text, val) ==
    CASE t = "boolean" ->
            /\ text = Text("true") => val = Bool(TRUE)
            /\ text = Text("false") => val = Bool(FALSE)
      [] t \in {"int", "long", "float", "double"} ->
            val = Num(IF ~text.none /\ IsNumeral(text.s) THEN Numeral(text.s) ELSE 0)
      [] OTHER -> ~text.none => val = Str(text.s)

\* C29: every attribute of the parsed graph comes from a data element whose
\* key is declared for that kind of element, every such data element sets
\* its attribute, and the value is the one its declared type gives the text
\* of the (last) data element: the truth value written for boolean, the
\* integer or 0 for int and long, the float or 0.0 for float and double, the
\* text for string.
C29_ConvertByType ==
    gml_pc = "parsed" =>
        /\ ~graph2.raised
        /\ \A kind \in {"graph", "node", "edge"} :
            LET ds == DataAt(gxl, kind)
                Of(k) == {j \in 1..Len(ds) : ds[j].key = k.id}
            IN  /\ DOMAIN AttrsAt(graph2, kind) =
                        {k.name : k \in {x \in KeysAt(kind) : Of(x) # {}}}
                /\ \A k \in KeysAt(kind) :
                        Of(k) # {} =>
                            ValueByType(k.type, ds[SetMax(Of(k))].text,
                                        AttrsAt(graph2, kind)[k.name])

====
